---- MODULE Spec2Model ----
(***************************************************************************)
(* Model of the MP4 file writer facade (src/writer.rs, Mp4Writer) of       *)
(* mp4-rust: track registration, sample appending into mdat, the in-place  *)
(* mdat size patch and the moov emitted by write_end.                      *)
(*                                                                         *)
(* 64-bit quantities (stream positions, box sizes, durations) are kept as  *)
(* pairs <<hi, lo>> of radix-2^16 limbs, value = hi * 2^16 + lo, so that   *)
(* the u32::MAX thresholds of the code are met at their true values.       *)
(***************************************************************************)
EXTENDS Integers, Sequences, FiniteSets, TLC

\* ------------------------------------------------------------------ bounds
MaxCalls == 4
MaxTrackId == 2

\* ------------------------------------------------------- 64-bit arithmetic
Radix == 2^16

U64(n) == <<n \div Radix, n % Radix>>

Norm(h, l) == <<h + (l \div Radix), l % Radix>>

Add(a, b) == Norm(a[1] + b[1], a[2] + b[2])

Sub(a, b) ==
    IF a[2] >= b[2] THEN <<a[1] - b[1], a[2] - b[2]>>
    ELSE <<a[1] - b[1] - 1, a[2] + Radix - b[2]>>

Gt(a, b) == a[1] > b[1] \/ (a[1] = b[1] /\ a[2] > b[2])

Ge(a, b) == a = b \/ Gt(a, b)

Min(a, b) == IF Gt(a, b) THEN b ELSE a

Max(a, b) == IF Gt(a, b) THEN a ELSE b

\* a * k and a / d for small k, d (timescales)
MulSmall(a, k) == Norm(a[1] * k, a[2] * k)

DivSmall(a, d) == <<a[1] \div d, ((a[1] % d) * Radix + a[2]) \div d>>

\* `x as u32`
AsU32(a) == <<a[1] % Radix, a[2]>>

U32_MAX == <<Radix - 1, Radix - 1>>

Zero == <<0, 0>>

\* Option<T>
None == <<>>

Some(x) == <<x>>

\* ------------------------------------------------------------------ inputs
HEADER_SIZE == 8

TrackIds == 0..MaxTrackId

\* config.timescale / TrackConfig.timescale
Timescales == {1, 2}

\* number of compatible brands in Mp4Config
BrandCounts == {4}

\* Mp4Sample: length of sample.bytes and sample.duration (u32)
SampleSizes == {U64(1), Sub(U32_MAX, U64(16)), Sub(U32_MAX, U64(15))}

SampleDurations == {U64(1), U32_MAX}

Mp4Samples == [bytes : SampleSizes, duration : SampleDurations]

\* update_offset arguments (microseconds)
OffsetsUs == {0}

DurationsUs == {500000, 3000000}

\* edits is history: for each track with an edit list, the duration (in movie
\* timescale) that the last update_offset on it asked for
VARIABLES writer, tracks, mdat_pos, timescale, duration, ret, ncalls, edits

\* copy is the state of the copy program of examples/mp4copy.rs; io is the
\* input and the result of the box codec or conversion under check.  Each is
\* idle in the specifications that do not run it.
VARIABLES copy, io

writer_vars == <<writer, tracks, mdat_pos, timescale, duration, ret, ncalls, edits>>

vars == <<writer, tracks, mdat_pos, timescale, duration, ret, ncalls, edits, copy, io>>

Idle == [pc |-> "idle"]

\* -------------------------------------------------- boxes outside writer.rs
\* FtypBox::box_size: header, major brand, minor version, 4 bytes per brand
FtypBoxSize(nbrands) == HEADER_SIZE + 8 + 4 * nbrands

MvhdBoxSize(version) == IF version = 1 THEN 120 ELSE 108

TrakBoxSize == 500

\* MoovBox::default()
MoovBoxDefault == [traks |-> <<>>,
                   mvhd |-> [version |-> 0, timescale |-> 1000, duration |-> Zero]]

\* MoovBox::box_size: HEADER_SIZE + sum of the children's box_size()
MoovBoxSize(moov) ==
    HEADER_SIZE + MvhdBoxSize(moov.mvhd.version) + TrakBoxSize * Len(moov.traks)

\* ---------------------------------------------------------- Mp4TrackWriter
Mp4TrackWriter_new(track_id, config) ==
    [track_id |-> track_id,
     timescale |-> config.timescale,
     sample_count |-> 0,
     mdhd_duration |-> Zero,
     tkhd_duration |-> Zero,
     elst |-> None]

\* Mp4TrackWriter::write_sample: the track after the sample; it returns the
\* track duration in movie timescale, kept in tkhd_duration
Track_write_sample(track, sample, movie_timescale) ==
    LET md == Add(track.mdhd_duration, sample.duration) IN
    [track EXCEPT !.sample_count = @ + 1,
                  !.mdhd_duration = md,
                  !.tkhd_duration = DivSmall(MulSmall(md, movie_timescale), track.timescale)]

\* Mp4TrackWriter::update_edit_list
Track_update_edit_list(track, offset, dur) ==
    [track EXCEPT !.elst = Some([segment_duration |-> dur,
                                 media_time |-> (offset * track.timescale) \div 1000000])]

\* Mp4TrackWriter::write_end: the TrakBox of the track
Track_write_end(track) ==
    [track_id |-> track.track_id,
     tkhd_duration |-> track.tkhd_duration,
     mdhd_duration |-> track.mdhd_duration,
     mdhd_timescale |-> track.timescale,
     sample_count |-> track.sample_count,
     elst |-> track.elst]

\* ------------------------------------------------------------ output stream
\* The stream starts with ftyp, then the 8-byte mdat header at mdat_pos
\* (size field mdat_size_field), then 8 bytes at mdat_pos + 8 (wide_slot),
\* then the regions appended so far (body).
Append_region(w, region) ==
    [w EXCEPT !.body = Append(@, [region EXCEPT !.at = w.pos]),
              !.pos = Add(w.pos, region.len)]

WideHeader == [type |-> "wide", value |-> U64(HEADER_SIZE)]

\* ------------------------------------------------------------------- Init
\* Mp4Writer::write_start
write_start(config) ==
    LET pos0 == U64(FtypBoxSize(config.nbrands)) IN
    /\ mdat_pos = pos0
    /\ writer = [ftyp_size |-> pos0,
                 mdat_size_field |-> U64(HEADER_SIZE),
                 wide_slot |-> WideHeader,
                 body |-> <<>>,
                 pos |-> Add(pos0, U64(2 * HEADER_SIZE))]
    /\ tracks = <<>>
    /\ timescale = config.timescale
    /\ duration = Zero

\* the writer right after write_start(config)
WriterInit(config) ==
    /\ write_start(config)
    /\ ret = [op |-> "write_start", arg |-> None, result |-> "Ok", value |-> None]
    /\ ncalls = 0
    /\ edits = <<>>

Init ==
    /\ \E ts \in Timescales, nb \in BrandCounts :
          WriterInit([timescale |-> ts, nbrands |-> nb])
    /\ copy = Idle
    /\ io = Idle

\* ---------------------------------------------------------------- add_track
\* the id add_track gives the new track
add_track_id(config_track_id, trks) ==
    IF config_track_id # None THEN config_track_id[1]
    ELSE Cardinality(DOMAIN trks) + 1

\* HashMap::insert
Insert(trks, id, track) ==
    [k \in (DOMAIN trks) \cup {id} |-> IF k = id THEN track ELSE trks[k]]

\* mutant: the value HashMap::insert returns is ignored
add_track_result_m(trks, track_id) == "Ok"

\* result of add_track from what HashMap::insert returned
add_track_result(trks, track_id) ==
    IF track_id \in DOMAIN trks THEN "InvalidData" ELSE "Ok"

\* one call of Mp4Writer::add_track
add_track_call(config) ==
    LET track_id == add_track_id(config.track_id, tracks)
        track == Mp4TrackWriter_new(track_id, config)
    IN /\ tracks' = Insert(tracks, track_id, track)
       /\ ret' = [op |-> "add_track", arg |-> config.track_id,
                  result |-> add_track_result(tracks, track_id),
                  value |-> Some(track_id)]
       /\ edits' = [k \in (DOMAIN edits) \ {track_id} |-> edits[k]]
       /\ ncalls' = ncalls + 1
       /\ UNCHANGED <<writer, mdat_pos, timescale, duration>>

add_track ==
    /\ ncalls < MaxCalls
    /\ \E cid \in {None} \cup {Some(i) : i \in TrackIds}, ts \in Timescales :
          add_track_call([track_id |-> cid, timescale |-> ts])
    /\ UNCHANGED <<copy, io>>

\* ------------------------------------------------------------ update_offset
update_offset ==
    /\ ncalls < MaxCalls
    /\ \E track_id \in 0..(MaxTrackId + 1), offset \in OffsetsUs, duration_us \in DurationsUs :
          IF track_id \in DOMAIN tracks
          THEN LET dur == U64((duration_us * timescale) \div 1000000) IN
               /\ tracks' = [tracks EXCEPT ![track_id] =
                                Track_update_edit_list(@, offset, Min(dur, duration))]
               /\ ret' = [op |-> "update_offset", arg |-> Some(track_id),
                          result |-> "Ok", value |-> None]
               /\ edits' = [k \in (DOMAIN edits) \cup {track_id} |->
                                IF k = track_id THEN dur ELSE edits[k]]
          ELSE /\ tracks' = tracks
               /\ edits' = edits
               /\ ret' = [op |-> "update_offset", arg |-> Some(track_id),
                          result |-> "TrakNotFound", value |-> Some(track_id)]
    /\ ncalls' = ncalls + 1
    /\ UNCHANGED <<writer, mdat_pos, timescale, duration, copy, io>>

\* ------------------------------------------------------------- write_sample
\* mutant: the movie duration follows the last track written
update_durations_m(dur, track_dur) == track_dur

update_durations(dur, track_dur) ==
    IF Gt(track_dur, dur) THEN track_dur ELSE dur

\* mutant: the track_id == 0 check is missing
write_sample_rejects_m(track_id, trks) == track_id \notin DOMAIN trks

\* the two early returns of write_sample
write_sample_rejects(track_id, trks) ==
    track_id = 0 \/ track_id \notin DOMAIN trks

\* one call of Mp4Writer::write_sample
write_sample_call(track_id, sample) ==
    /\ IF write_sample_rejects(track_id, tracks)
       THEN /\ ret' = [op |-> "write_sample", arg |-> Some(track_id),
                       result |-> "TrakNotFound", value |-> Some(track_id)]
            /\ UNCHANGED <<writer, tracks, duration>>
       ELSE LET track == Track_write_sample(tracks[track_id], sample, timescale) IN
            /\ writer' = Append_region(writer,
                             [kind |-> "sample", at |-> Zero, len |-> sample.bytes,
                              track_id |-> track_id, moov |-> None])
            /\ tracks' = [tracks EXCEPT ![track_id] = track]
            /\ duration' = update_durations(duration, track.tkhd_duration)
            /\ ret' = [op |-> "write_sample", arg |-> Some(track_id),
                       result |-> "Ok", value |-> Some(track.tkhd_duration)]
    /\ ncalls' = ncalls + 1
    /\ UNCHANGED <<mdat_pos, timescale, edits>>

write_sample ==
    /\ ncalls < MaxCalls
    /\ \E track_id \in 0..(MaxTrackId + 1), sample \in Mp4Samples :
          write_sample_call(track_id, sample)
    /\ UNCHANGED <<copy, io>>

\* ---------------------------------------------------------------- write_end
\* mutant: the extent is taken from the start of the file
update_mdat_size_from_zero(w, mpos) ==
    LET mdat_end == w.pos
        mdat_size == mdat_end
    IN IF Gt(mdat_size, U32_MAX)
       THEN [w EXCEPT !.mdat_size_field = U64(1),
                      !.wide_slot = [type |-> "largesize", value |-> mdat_size],
                      !.pos = mdat_end]
       ELSE [w EXCEPT !.mdat_size_field = AsU32(mdat_size),
                      !.pos = mdat_end]

\* mutant: the 32-bit size field is not set to 1 in the largesize case
update_mdat_size_no_marker(w, mpos) ==
    LET mdat_end == w.pos
        mdat_size == Sub(mdat_end, mpos)
    IN IF Gt(mdat_size, U32_MAX)
       THEN [w EXCEPT !.mdat_size_field = AsU32(mdat_size),
                      !.wide_slot = [type |-> "largesize", value |-> mdat_size],
                      !.pos = mdat_end]
       ELSE [w EXCEPT !.mdat_size_field = AsU32(mdat_size),
                      !.pos = mdat_end]

\* mutant: the threshold is >= u32::MAX
update_mdat_size_ge(w, mpos) ==
    LET mdat_end == w.pos
        mdat_size == Sub(mdat_end, mpos)
    IN IF Ge(mdat_size, U32_MAX)
       THEN [w EXCEPT !.mdat_size_field = U64(1),
                      !.wide_slot = [type |-> "largesize", value |-> mdat_size],
                      !.pos = mdat_end]
       ELSE [w EXCEPT !.mdat_size_field = AsU32(mdat_size),
                      !.pos = mdat_end]

\* mutant: the 8 bytes at mdat_pos + 8 are rewritten in the 32-bit case too
update_mdat_size_clobber(w, mpos) ==
    LET mdat_end == w.pos
        mdat_size == Sub(mdat_end, mpos)
    IN IF Gt(mdat_size, U32_MAX)
       THEN [w EXCEPT !.mdat_size_field = U64(1),
                      !.wide_slot = [type |-> "largesize", value |-> mdat_size],
                      !.pos = mdat_end]
       ELSE [w EXCEPT !.mdat_size_field = AsU32(mdat_size),
                      !.wide_slot = [type |-> "largesize", value |-> mdat_size],
                      !.pos = mdat_end]

\* update_mdat_size: the stream after the size patch
update_mdat_size(w, mpos) ==
    LET mdat_end == w.pos
        mdat_size == Sub(mdat_end, mpos)
    IN IF Gt(mdat_size, U32_MAX)
       THEN [w EXCEPT !.mdat_size_field = U64(1),
                      !.wide_slot = [type |-> "largesize", value |-> mdat_size],
                      !.pos = mdat_end]
       ELSE [w EXCEPT !.mdat_size_field = AsU32(mdat_size),
                      !.pos = mdat_end]

\* mutant: the threshold is >= u32::MAX
mvhd_version_ge(default_version, dur) ==
    IF Ge(dur, U32_MAX) THEN 1 ELSE default_version

\* moov.mvhd.version after `if moov.mvhd.duration > u32::MAX { version = 1 }`
mvhd_version(default_version, dur) ==
    IF Gt(dur, U32_MAX) THEN 1 ELSE default_version

\* the orders in which a HashMap may iterate its keys
IterOrders(S) ==
    {s \in [1..Cardinality(S) -> S] : \A i, j \in DOMAIN s : i # j => s[i] # s[j]}

\* the region moov.write_box appends
MoovRegion(moov) ==
    [kind |-> "moov", at |-> Zero, len |-> U64(MoovBoxSize(moov)),
     track_id |-> 0, moov |-> Some(moov)]

\* mutant: moov is serialized before the mdat size is patched
write_end_stream_m(w, mpos, moov) ==
    update_mdat_size(Append_region(w, MoovRegion(moov)), mpos)

\* the stream after self.update_mdat_size()? and moov.write_box(..)?
write_end_stream(w, mpos, moov) ==
    Append_region(update_mdat_size(w, mpos), MoovRegion(moov))

\* one call of Mp4Writer::write_end
write_end_call ==
    /\ \E order \in IterOrders(DOMAIN tracks) :
          LET traks == [i \in DOMAIN order |-> Track_write_end(tracks[order[i]])]
              moov == [traks |-> traks,
                       mvhd |-> [version |-> mvhd_version(MoovBoxDefault.mvhd.version, duration),
                                 timescale |-> timescale,
                                 duration |-> duration]]
          IN /\ writer' = write_end_stream(writer, mdat_pos, moov)
             /\ ret' = [op |-> "write_end", arg |-> None, result |-> "Ok", value |-> None]
    /\ ncalls' = ncalls + 1
    /\ UNCHANGED <<tracks, mdat_pos, timescale, duration, edits>>

write_end ==
    /\ ncalls < MaxCalls
    /\ write_end_call
    /\ UNCHANGED <<copy, io>>

Next == add_track \/ update_offset \/ write_sample \/ write_end

Spec == Init /\ [][Next]_vars

\* ------------------------------------------------- examples/mp4copy.rs copy
MaxSrcTrackId == 3
MaxSrcSamples == 2

\* the source file as the reader shows it: sample_count per track id, and
\* the order in which its track map iterates
SourceFiles ==
    UNION {[S -> 0..MaxSrcSamples] : S \in SUBSET (1..MaxSrcTrackId)}

\* Mp4Reader::read_sample(track_id, sample_id)
CopySample == [bytes |-> U64(1), duration |-> U64(1)]

\* first track at or after position i of the iteration that has a sample
RECURSIVE SkipEmpty(_, _, _)
SkipEmpty(src, order, i) ==
    IF i > Len(order) THEN i
    ELSE IF src[order[i]] = 0 THEN SkipEmpty(src, order, i + 1)
    ELSE i

\* position of the second loop: track i of the iteration, sample n
CopyAt(c, i, n) ==
    LET j == SkipEmpty(c.src, c.order, i) IN
    IF j > Len(c.order) THEN [c EXCEPT !.pc = "write_end", !.i = j, !.n = 1]
    ELSE [c EXCEPT !.pc = "write_samples", !.i = j, !.n = IF j = i THEN n ELSE 1]

CopyInit ==
    /\ \E ts \in Timescales, nb \in BrandCounts :
          WriterInit([timescale |-> ts, nbrands |-> nb])
    /\ \E src \in SourceFiles : \E order \in IterOrders(DOMAIN src) :
          LET c == [pc |-> "add_tracks", src |-> src, order |-> order,
                    i |-> 1, n |-> 1, from |-> <<>>, delivered |-> <<>>]
          IN copy = IF Len(order) = 0 THEN CopyAt(c, 1, 1) ELSE c
    /\ io = Idle

\* first loop: mp4_writer.add_track(&track_conf)? with track_id: None
copy_add_track ==
    /\ copy.pc = "add_tracks"
    /\ add_track_call([track_id |-> None, timescale |-> 1])
    /\ copy' =
          IF ret'.result # "Ok" THEN [copy EXCEPT !.pc = "failed"]
          ELSE LET d == ret'.value[1]
                   c == [copy EXCEPT
                           !.from = [k \in (DOMAIN @) \cup {d} |->
                                        IF k = d THEN copy.order[copy.i] ELSE @[k]],
                           !.delivered = [k \in (DOMAIN @) \cup {d} |->
                                        IF k = d THEN <<>> ELSE @[k]],
                           !.i = @ + 1]
               IN IF c.i > Len(c.order) THEN CopyAt(c, 1, 1) ELSE c
    /\ UNCHANGED io

\* second loop: mp4_writer.write_sample(track_id, &sample)? under the source id
copy_write_sample ==
    /\ copy.pc = "write_samples"
    /\ LET track_id == copy.order[copy.i] IN
       /\ write_sample_call(track_id, CopySample)
       /\ copy' =
             IF ret'.result # "Ok" THEN [copy EXCEPT !.pc = "failed"]
             ELSE LET c == [copy EXCEPT !.delivered[track_id] =
                                           Append(@, <<track_id, copy.n>>)]
                  IN IF copy.n < copy.src[track_id]
                     THEN CopyAt(c, copy.i, copy.n + 1)
                     ELSE CopyAt(c, copy.i + 1, 1)
    /\ UNCHANGED io

\* mp4_writer.write_end()?
copy_write_end ==
    /\ copy.pc = "write_end"
    /\ write_end_call
    /\ copy' = [copy EXCEPT !.pc = "done"]
    /\ UNCHANGED io

CopyNext == copy_add_track \/ copy_write_sample \/ copy_write_end

SpecCopy == CopyInit /\ [][CopyNext]_vars

\* ------------------------------------------------------ byte-level helpers
\* A u32 is a limb pair <<hi16, lo16>>, a u64 a limb pair whose hi limb holds
\* the upper 48 bits; u8 and u16 are plain numbers.  A buffer is a sequence
\* of bytes; offsets into it count from 0.
RECURSIVE BitAnd(_, _)
BitAnd(a, b) ==
    IF a = 0 \/ b = 0 THEN 0
    ELSE (a % 2) * (b % 2) + 2 * BitAnd(a \div 2, b \div 2)

RECURSIVE BitOr(_, _)
BitOr(a, b) ==
    IF a = 0 THEN b
    ELSE IF b = 0 THEN a
    ELSE ((a % 2) + (b % 2) - (a % 2) * (b % 2)) + 2 * BitOr(a \div 2, b \div 2)

And32(x, y) == <<BitAnd(x[1], y[1]), BitAnd(x[2], y[2])>>

Or32(x, y) == <<BitOr(x[1], y[1]), BitOr(x[2], y[2])>>

\* x >> k on u32
Shr32(x, k) ==
    IF k >= 16 THEN <<0, x[1] \div 2^(k - 16)>>
    ELSE <<x[1] \div 2^k, (x[1] % 2^k) * 2^(16 - k) + x[2] \div 2^k>>

\* x << k on u32 (bits shifted out are lost)
Shl32(x, k) ==
    IF k >= 16 THEN <<(x[2] % 2^(32 - k)) * 2^(k - 16), 0>>
    ELSE <<(x[1] % 2^(16 - k)) * 2^k + x[2] \div 2^(16 - k), (x[2] % 2^(16 - k)) * 2^k>>

\* u32::from(bool)
FromBool(b) == IF b THEN U64(1) ELSE U64(0)

BE16(n) == <<n \div 256, n % 256>>

BE32(w) == BE16(w[1]) \o BE16(w[2])

BE64(a) ==
    <<0, 0, (a[1] \div 16777216) % 256, (a[1] \div 65536) % 256>>
        \o BE16(a[1] % 65536) \o BE16(a[2])

\* n bytes of buf are left at offset p
Avail(buf, p, n) == p + n <= Len(buf)

RdU8(buf, p) == buf[p + 1]

RdU16(buf, p) == buf[p + 1] * 256 + buf[p + 2]

RdU32(buf, p) == <<RdU16(buf, p), RdU16(buf, p + 2)>>

RdU64(buf, p) ==
    <<((RdU16(buf, p) * 65536 + RdU16(buf, p + 2)) * 65536) + RdU16(buf, p + 4),
      RdU16(buf, p + 6)>>

HEADER_EXT_SIZE == 4

\* four-character codes
FourCC_sidx == <<115, 105, 100, 120>>

\* BoxHeader::new(name, size).write: 32-bit size, then the four-cc
BoxHeader_write(name, size) == BE32(U64(size)) \o name

\* BoxHeader::read at offset p
BoxHeader_read(buf, p) ==
    IF ~Avail(buf, p, HEADER_SIZE) THEN [ok |-> FALSE, err |-> "IoError"]
    ELSE [ok |-> TRUE, name |-> SubSeq(buf, p + 5, p + 8),
          size |-> RdU32(buf, p)[1] * Radix + RdU32(buf, p)[2]]

\* write_box_header_ext: version, then flags as u24
write_box_header_ext(version, flags) ==
    <<version, (flags \div 65536) % 256, (flags \div 256) % 256, flags % 256>>

\* ---------------------------------------------------------- mp4box/sidx.rs
MaxSegments == 2

Segments ==
    [reference_type : BOOLEAN,
     reference_size : {<<32767, 65535>>},
     subsegment_duration : {U64(123000)},
     starts_with_sap : BOOLEAN,
     sap_type : {0, 5},
     sap_delta_time : {U64(0), <<4095, 65533>>}]

SegmentLists == UNION {[1..n -> Segments] : n \in 0..MaxSegments}

SidxBoxes ==
    [version : {0, 1, 2},
     flags : {0},
     reference_id : {U64(1)},
     timescale : {U64(1000)},
     earliest_presentation_time : {U64(1344)},
     first_offset : {U64(212), <<65535, 65535>>, <<65536, 5>>},
     reserved : {0},
     reference_count : 0..MaxSegments,
     segments : SegmentLists]

SidxBox_get_size(b) ==
    (HEADER_SIZE + HEADER_EXT_SIZE)
      + (IF b.version = 1 THEN 24 ELSE IF b.version = 0 THEN 16 ELSE 0)
      + 4
      + b.reference_count * 12

\* Segment::write: the 12 bytes of one reference
Segment_write(seg) ==
    BE32(Or32(Shl32(FromBool(seg.reference_type), 31), seg.reference_size))
      \o BE32(seg.subsegment_duration)
      \o BE32(Or32(Or32(Shl32(FromBool(seg.starts_with_sap), 31),
                        Shl32(U64(seg.sap_type), 28)),
                   seg.sap_delta_time))

\* Segment::read at offset p (12 bytes are there)
Segment_read(buf, p) ==
    LET reference == RdU32(buf, p)
        sap == RdU32(buf, p + 8)
    IN [reference_type |-> Shr32(reference, 31) = U64(1),
        reference_size |-> And32(reference, <<32767, 65535>>),
        subsegment_duration |-> RdU32(buf, p + 4),
        starts_with_sap |-> Shr32(sap, 31) = U64(1),
        \* sap & 0x70000000 >> 28 parses as sap & (0x70000000 >> 28)
        sap_type |-> And32(sap, Shr32(<<28672, 0>>, 28))[2] % 256,
        sap_delta_time |-> And32(sap, <<4095, 65535>>)]

RECURSIVE Segments_write(_)
Segments_write(segs) ==
    IF segs = <<>> THEN <<>> ELSE Segment_write(Head(segs)) \o Segments_write(Tail(segs))

\* SidxBox::write_box: the result and the bytes that reached the writer
SidxBox_write_box(b) ==
    LET size == SidxBox_get_size(b)
        head == BoxHeader_write(FourCC_sidx, size)
                  \o write_box_header_ext(b.version, b.flags)
    IN IF b.version = 1
       THEN [result |-> "Ok", size |-> size,
             buf |-> head \o BE32(b.reference_id) \o BE32(b.timescale)
                       \o BE64(b.earliest_presentation_time) \o BE64(b.first_offset)
                       \o BE16(b.reserved) \o BE16(b.reference_count)
                       \o Segments_write(b.segments)]
       ELSE IF b.version = 0
       THEN [result |-> "Ok", size |-> size,
             buf |-> head \o BE32(b.reference_id) \o BE32(b.timescale)
                       \o BE32(AsU32(b.earliest_presentation_time))
                       \o BE32(AsU32(b.first_offset))
                       \o BE16(b.reserved) \o BE16(b.reference_count)
                       \o Segments_write(b.segments)]
       ELSE [result |-> "InvalidData", size |-> size, buf |-> head]

\* SidxBox::read_box with the reader at offset p, just after the box header
SidxBox_read_box(buf, p, size) ==
    LET start == p - HEADER_SIZE
        IoError == [result |-> "IoError"]
    IN IF ~Avail(buf, p, HEADER_EXT_SIZE) THEN IoError
       ELSE LET version == RdU8(buf, p)
                flags == (RdU8(buf, p + 1) * 256 + RdU8(buf, p + 2)) * 256 + RdU8(buf, p + 3)
                q == p + HEADER_EXT_SIZE
                fixed == IF version = 0 THEN 16 ELSE 24
            IN IF version > 1 THEN [result |-> "InvalidData"]
               ELSE IF ~Avail(buf, q, fixed + 4) THEN IoError
               ELSE LET reference_count == RdU16(buf, q + fixed + 2)
                        r == q + fixed + 4
                    IN IF ~Avail(buf, r, 12 * reference_count) THEN IoError
                       ELSE [result |-> "Ok",
                             pos |-> start + size,
                             box |-> [version |-> version,
                                      flags |-> flags,
                                      reference_id |-> RdU32(buf, q),
                                      timescale |-> RdU32(buf, q + 4),
                                      earliest_presentation_time |->
                                          IF version = 0 THEN RdU32(buf, q + 8)
                                          ELSE RdU64(buf, q + 8),
                                      first_offset |->
                                          IF version = 0 THEN RdU32(buf, q + 12)
                                          ELSE RdU64(buf, q + 16),
                                      reserved |-> RdU16(buf, q + fixed),
                                      reference_count |-> reference_count,
                                      segments |-> [k \in 1..reference_count |->
                                                      Segment_read(buf, r + 12 * (k - 1))]]]

\* the writer is not used by the box codecs
CodecInit ==
    /\ WriterInit([timescale |-> 1, nbrands |-> 4])
    /\ copy = Idle

SidxInit ==
    /\ CodecInit
    /\ \E b \in SidxBoxes : io = [pc |-> "box", box |-> b]

\* src_box.write_box(&mut buf)
sidx_write_box ==
    /\ io.pc = "box"
    /\ io' = [pc |-> "written", box |-> io.box, wr |-> SidxBox_write_box(io.box)]
    /\ UNCHANGED <<writer_vars, copy>>

\* BoxHeader::read(&mut reader), then SidxBox::read_box(&mut reader, header.size)
sidx_read_box ==
    /\ io.pc = "written"
    /\ io.wr.result = "Ok"
    /\ LET header == BoxHeader_read(io.wr.buf, 0) IN
       io' = [pc |-> "read", box |-> io.box, wr |-> io.wr, header |-> header,
              rd |-> SidxBox_read_box(io.wr.buf, HEADER_SIZE, header.size)]
    /\ UNCHANGED <<writer_vars, copy>>

SidxNext == sidx_write_box \/ sidx_read_box

SpecSidx == SidxInit /\ [][SidxNext]_vars

\* ---------------------------------------------------------- mp4box/opus.rs
MaxChannels == 2

FourCC_Opus == <<79, 112, 117, 115>>

FourCC_dOps == <<100, 79, 112, 115>>

Zeros(n) == [i \in 1..n |-> 0]

\* write_i16 / read_i16: two's complement
BEI16(v) == BE16((v + 65536) % 65536)

RdI16(buf, p) == IF RdU16(buf, p) >= 32768 THEN RdU16(buf, p) - 65536 ELSE RdU16(buf, p)

ChannelMappingTables ==
    [stream_count : {4}, coupled_count : {2},
     channel_mapping : UNION {[1..n -> {0, 1}] : n \in 0..MaxChannels}]

DopsBoxes ==
    [version : {0},
     output_channel_count : 0..MaxChannels,
     pre_skip : {312},
     input_sample_rate : {U64(48000)},
     output_gain : {0, -1},
     channel_mapping_family : {0, 1},
     channel_mapping_table : {None} \cup {Some(t) : t \in ChannelMappingTables}]

OpusBoxes ==
    [data_reference_index : {1},
     channel_count : {2},
     sample_size : {16},
     sample_rate : {<<48000, 0>>},
     dops_box : {None} \cup {Some(d) : d \in DopsBoxes}]

DopsBox_box_size(d) ==
    HEADER_SIZE + 11
      + (IF d.channel_mapping_family # 0 THEN d.output_channel_count + 2 ELSE 0)

\* DopsBox::write_box; unwrap() of an absent table panics
DopsBox_write_box(d) ==
    LET size == DopsBox_box_size(d)
        head == BoxHeader_write(FourCC_dOps, size)
                  \o <<d.version, d.output_channel_count>> \o BE16(d.pre_skip)
                  \o BE32(d.input_sample_rate) \o BEI16(d.output_gain)
                  \o <<d.channel_mapping_family>>
    IN IF d.channel_mapping_family # 0
       THEN IF d.channel_mapping_table = None
            THEN [result |-> "panic", size |-> size, buf |-> head]
            ELSE LET t == d.channel_mapping_table[1] IN
                 [result |-> "Ok", size |-> size,
                  buf |-> head \o <<t.stream_count, t.coupled_count>> \o t.channel_mapping]
       ELSE [result |-> "Ok", size |-> size, buf |-> head]

\* DopsBox::read_box with the reader at offset p, just after the box header
DopsBox_read_box(buf, p, size) ==
    LET start == p - HEADER_SIZE IN
    IF ~Avail(buf, p, 11) THEN [result |-> "IoError"]
    ELSE LET output_channel_count == RdU8(buf, p + 1)
             channel_mapping_family == RdU8(buf, p + 10)
         IN IF channel_mapping_family # 0 /\ ~Avail(buf, p + 11, 2 + output_channel_count)
            THEN [result |-> "IoError"]
            ELSE [result |-> "Ok",
                  pos |-> start + size,
                  box |-> [version |-> RdU8(buf, p),
                           output_channel_count |-> output_channel_count,
                           pre_skip |-> RdU16(buf, p + 2),
                           input_sample_rate |-> RdU32(buf, p + 4),
                           output_gain |-> RdI16(buf, p + 8),
                           channel_mapping_family |-> channel_mapping_family,
                           channel_mapping_table |->
                               IF channel_mapping_family # 0
                               THEN Some([stream_count |-> RdU8(buf, p + 11),
                                          coupled_count |-> RdU8(buf, p + 12),
                                          channel_mapping |->
                                              [k \in 1..output_channel_count |->
                                                  RdU8(buf, p + 12 + k)]])
                               ELSE None]]

OpusBox_get_size(b) ==
    HEADER_SIZE + 28 + (IF b.dops_box # None THEN DopsBox_box_size(b.dops_box[1]) ELSE 0)

\* OpusBox::write_box
OpusBox_write_box(b) ==
    LET size == OpusBox_get_size(b)
        head == BoxHeader_write(FourCC_Opus, size)
                  \o Zeros(4) \o Zeros(2) \o BE16(b.data_reference_index)
                  \o Zeros(8) \o BE16(b.channel_count) \o BE16(b.sample_size)
                  \o Zeros(4) \o BE32(b.sample_rate)
    IN IF b.dops_box = None THEN [result |-> "Ok", size |-> size, buf |-> head]
       ELSE LET dw == DopsBox_write_box(b.dops_box[1]) IN
            [result |-> dw.result, size |-> size, buf |-> head \o dw.buf]

\* `if s > size` of OpusBox::read_box
OpusChildTooLarge(s, size) == s > size

\* OpusBox::read_box with the reader at offset p, just after the box header
OpusBox_read_box(buf, p, size) ==
    LET start == p - HEADER_SIZE IN
    IF ~Avail(buf, p, 28) THEN [result |-> "IoError"]
    ELSE LET header == BoxHeader_read(buf, p + 28) IN
         IF ~header.ok THEN [result |-> "IoError"]
         ELSE IF OpusChildTooLarge(header.size, size) THEN [result |-> "InvalidData"]
         ELSE LET dr == IF header.name = FourCC_dOps
                        THEN DopsBox_read_box(buf, p + 28 + HEADER_SIZE, header.size)
                        ELSE [result |-> "Ok", box |-> None]
              IN IF dr.result # "Ok" THEN [result |-> dr.result]
                 ELSE [result |-> "Ok",
                       pos |-> start + size,
                       box |-> [data_reference_index |-> RdU16(buf, p + 6),
                                channel_count |-> RdU16(buf, p + 16),
                                sample_size |-> RdU16(buf, p + 18),
                                sample_rate |-> RdU32(buf, p + 24),
                                dops_box |-> IF header.name = FourCC_dOps
                                             THEN Some(dr.box) ELSE None]]

OpusInit ==
    /\ CodecInit
    /\ \E b \in OpusBoxes : io = [pc |-> "box", box |-> b]

\* src_box.write_box(&mut buf)
opus_write_box ==
    /\ io.pc = "box"
    /\ io' = [pc |-> "written", box |-> io.box, wr |-> OpusBox_write_box(io.box)]
    /\ UNCHANGED <<writer_vars, copy>>

\* BoxHeader::read(&mut reader), then OpusBox::read_box(&mut reader, header.size)
opus_read_box ==
    /\ io.pc = "written"
    /\ io.wr.result = "Ok"
    /\ LET header == BoxHeader_read(io.wr.buf, 0) IN
       io' = [pc |-> "read", box |-> io.box, wr |-> io.wr, header |-> header,
              rd |-> OpusBox_read_box(io.wr.buf, HEADER_SIZE, header.size)]
    /\ UNCHANGED <<writer_vars, copy>>

OpusNext == opus_write_box \/ opus_read_box

SpecOpus == OpusInit /\ [][OpusNext]_vars

\* ---------------------------------------------------------- mp4box/hvc1.rs
MaxArrays == 2

FourCC_hvc1 == <<104, 118, 99, 49>>

FourCC_hvcC == <<104, 118, 99, 67>>

\* u48 values are three 16-bit limbs
BE48(v) == BE16(v[1]) \o BE16(v[2]) \o BE16(v[3])

RdU48(buf, p) == <<RdU16(buf, p), RdU16(buf, p + 2), RdU16(buf, p + 4)>>

\* the i-th parameter-set array: VPS (32) with a 1-byte NAL, SPS (33) with a 2-byte NAL
HvcCArrayAt(i) ==
    IF i % 2 = 1
    THEN [nal_unit_type |-> 32, completeness |-> TRUE,
          nalus |-> <<[size |-> 1, data |-> <<64>>]>>]
    ELSE [nal_unit_type |-> 33, completeness |-> FALSE,
          nalus |-> <<[size |-> 2, data |-> <<66, 1>>]>>]

HvcCArrayLists == {[i \in 1..n |-> HvcCArrayAt(i)] : n \in 0..MaxArrays}

HvcCBoxes ==
    [configuration_version : {0, 1},
     general_profile_space : {0, 2},
     general_tier_flag : BOOLEAN,
     general_profile_idc : {0, 1},
     general_profile_compatibility_flags : {U64(0), <<100, 26742>>},
     general_constraint_indicator_flag : {<<0, 0, 0>>, <<25411, 0, 0>>},
     general_level_idc : {93},
     min_spatial_segmentation_idc : {0},
     parallelism_type : {0},
     chroma_format_idc : {1},
     bit_depth_luma_minus8 : {0},
     bit_depth_chroma_minus8 : {0},
     avg_frame_rate : {0},
     constant_frame_rate : {0},
     num_temporal_layers : {1},
     temporal_id_nested : BOOLEAN,
     length_size_minus_one : {3},
     arrays : HvcCArrayLists]

Hvc1Boxes ==
    [data_reference_index : {1},
     width : {320},
     height : {240},
     horizresolution : {<<72, 0>>},
     vertresolution : {<<72, 0>>},
     frame_count : {1},
     depth : {24},
     hvcc : HvcCBoxes]

RECURSIVE NalusSize(_)
\* sum of 2 + data.len() over the NAL units of an array
NalusSize(nalus) ==
    IF nalus = <<>> THEN 0 ELSE 2 + Len(Head(nalus).data) + NalusSize(Tail(nalus))

RECURSIVE ArraysSize(_)
\* sum of 3 + the size of its NAL units over the arrays
ArraysSize(arrays) ==
    IF arrays = <<>> THEN 0
    ELSE 3 + NalusSize(Head(arrays).nalus) + ArraysSize(Tail(arrays))

HvcCBox_box_size(h) == HEADER_SIZE + 23 + ArraysSize(h.arrays)

RECURSIVE HvcC_read_nalus(_, _, _)
HvcC_read_nalus(buf, p, n) ==
    IF n = 0 THEN [ok |-> TRUE, pos |-> p, items |-> <<>>]
    ELSE IF ~Avail(buf, p, 2) \/ ~Avail(buf, p + 2, RdU16(buf, p)) THEN [ok |-> FALSE]
    ELSE LET size == RdU16(buf, p)
             rest == HvcC_read_nalus(buf, p + 2 + size, n - 1)
         IN IF ~rest.ok THEN rest
            ELSE [ok |-> TRUE, pos |-> rest.pos,
                  items |-> <<[size |-> size, data |-> SubSeq(buf, p + 3, p + 2 + size)]>>
                               \o rest.items]

RECURSIVE HvcC_read_arrays(_, _, _)
HvcC_read_arrays(buf, p, n) ==
    IF n = 0 THEN [ok |-> TRUE, pos |-> p, items |-> <<>>]
    ELSE IF ~Avail(buf, p, 3) THEN [ok |-> FALSE]
    ELSE LET nalus == HvcC_read_nalus(buf, p + 3, RdU16(buf, p + 1)) IN
         IF ~nalus.ok THEN nalus
         ELSE LET rest == HvcC_read_arrays(buf, nalus.pos, n - 1) IN
              IF ~rest.ok THEN rest
              ELSE [ok |-> TRUE, pos |-> rest.pos,
                    items |-> <<[nal_unit_type |-> RdU8(buf, p) % 64,
                                 completeness |-> RdU8(buf, p) >= 128,
                                 nalus |-> nalus.items]>> \o rest.items]

\* HvcCBox::read_box with the reader at offset p, just after the hvcC header
HvcCBox_read_box(buf, p, size) ==
    IF ~Avail(buf, p, 23) THEN [result |-> "IoError"]
    ELSE LET arrays == HvcC_read_arrays(buf, p + 23, RdU8(buf, p + 22)) IN
         IF ~arrays.ok THEN [result |-> "IoError"]
         ELSE [result |-> "Ok",
               box |-> [configuration_version |-> RdU8(buf, p),
                        general_profile_space |-> RdU8(buf, p + 1) \div 64,
                        general_tier_flag |-> (RdU8(buf, p + 1) \div 32) % 2 = 1,
                        general_profile_idc |-> RdU8(buf, p + 1) % 32,
                        general_profile_compatibility_flags |-> RdU32(buf, p + 2),
                        general_constraint_indicator_flag |-> RdU48(buf, p + 6),
                        general_level_idc |-> RdU8(buf, p + 12),
                        min_spatial_segmentation_idc |-> RdU16(buf, p + 13) % 4096,
                        parallelism_type |-> RdU8(buf, p + 15) % 4,
                        chroma_format_idc |-> RdU8(buf, p + 16) % 4,
                        bit_depth_luma_minus8 |-> RdU8(buf, p + 17) % 8,
                        bit_depth_chroma_minus8 |-> RdU8(buf, p + 18) % 8,
                        avg_frame_rate |-> RdU16(buf, p + 19),
                        constant_frame_rate |-> RdU8(buf, p + 21) \div 64,
                        num_temporal_layers |-> (RdU8(buf, p + 21) \div 8) % 8,
                        temporal_id_nested |-> (RdU8(buf, p + 21) \div 4) % 2 = 1,
                        length_size_minus_one |-> RdU8(buf, p + 21) % 4,
                        arrays |-> arrays.items]]

Hvc1Box_get_size(b) == HEADER_SIZE + 8 + 70 + HvcCBox_box_size(b.hvcc)

RECURSIVE Nalus_write(_)
Nalus_write(nalus) ==
    IF nalus = <<>> THEN <<>>
    ELSE BE16(Head(nalus).size) \o Head(nalus).data \o Nalus_write(Tail(nalus))

RECURSIVE Arrays_write(_)
Arrays_write(arrays) ==
    IF arrays = <<>> THEN <<>>
    ELSE LET arr == Head(arrays) IN
         <<BitOr(BitAnd(arr.nal_unit_type, 63), (IF arr.completeness THEN 1 ELSE 0) * 128)>>
           \o BE16(Len(arr.nalus)) \o Nalus_write(arr.nalus) \o Arrays_write(Tail(arrays))

\* Hvc1Box::write_box: the visual prefix, then the hvcC fields with no hvcC header
Hvc1Box_write_box(b) ==
    LET size == Hvc1Box_get_size(b)
        h == b.hvcc
    IN [result |-> "Ok", size |-> size,
        buf |-> BoxHeader_write(FourCC_hvc1, size)
                  \o Zeros(4) \o Zeros(2) \o BE16(b.data_reference_index)
                  \o Zeros(4) \o Zeros(8) \o Zeros(4)
                  \o BE16(b.width) \o BE16(b.height)
                  \o BE32(b.horizresolution) \o BE32(b.vertresolution)
                  \o Zeros(4) \o BE16(b.frame_count) \o Zeros(32)
                  \o BE16(b.depth) \o BEI16(-1)
                  \o <<h.configuration_version,
                       BitOr(BitOr(BitAnd(h.general_profile_space, 3) * 64,
                                   (IF h.general_tier_flag THEN 1 ELSE 0) * 32),
                             BitAnd(h.general_profile_idc, 31))>>
                  \o BE32(h.general_profile_compatibility_flags)
                  \o BE48(h.general_constraint_indicator_flag)
                  \o <<h.general_level_idc>>
                  \o BE16(BitAnd(h.min_spatial_segmentation_idc, 4095))
                  \o <<BitAnd(h.parallelism_type, 3), BitAnd(h.chroma_format_idc, 3),
                       BitAnd(h.bit_depth_luma_minus8, 7),
                       BitAnd(h.bit_depth_chroma_minus8, 7)>>
                  \o BE16(h.avg_frame_rate)
                  \o <<BitOr(BitOr(BitAnd(h.constant_frame_rate, 3) * 64,
                                   BitAnd(h.num_temporal_layers, 7) * 8),
                             BitOr((IF h.temporal_id_nested THEN 1 ELSE 0) * 4,
                                   BitAnd(h.length_size_minus_one, 3))),
                       Len(h.arrays) % 256>>
                  \o Arrays_write(h.arrays)]

\* `if s > size` of Hvc1Box::read_box
Hvc1ChildTooLarge(s, size) == s > size

\* Hvc1Box::read_box with the reader at offset p, just after the box header
Hvc1Box_read_box(buf, p, size) ==
    LET start == p - HEADER_SIZE IN
    IF ~Avail(buf, p, 78) THEN [result |-> "IoError"]
    ELSE LET header == BoxHeader_read(buf, p + 78) IN
         IF ~header.ok THEN [result |-> "IoError"]
         ELSE IF Hvc1ChildTooLarge(header.size, size) THEN [result |-> "InvalidData"]
         ELSE IF header.name # FourCC_hvcC THEN [result |-> "InvalidData"]
         ELSE LET hr == HvcCBox_read_box(buf, p + 78 + HEADER_SIZE, header.size) IN
              IF hr.result # "Ok" THEN [result |-> hr.result]
              ELSE [result |-> "Ok",
                    pos |-> start + size,
                    box |-> [data_reference_index |-> RdU16(buf, p + 6),
                             width |-> RdU16(buf, p + 24),
                             height |-> RdU16(buf, p + 26),
                             horizresolution |-> RdU32(buf, p + 28),
                             vertresolution |-> RdU32(buf, p + 32),
                             frame_count |-> RdU16(buf, p + 40),
                             depth |-> RdU16(buf, p + 74),
                             hvcc |-> hr.box]]

Hvc1Init ==
    /\ CodecInit
    /\ \E b \in Hvc1Boxes : io = [pc |-> "box", box |-> b]

\* src_box.write_box(&mut buf)
hvc1_write_box ==
    /\ io.pc = "box"
    /\ io' = [pc |-> "written", box |-> io.box, wr |-> Hvc1Box_write_box(io.box)]
    /\ UNCHANGED <<writer_vars, copy>>

\* BoxHeader::read(&mut reader), then Hvc1Box::read_box(&mut reader, header.size)
hvc1_read_box ==
    /\ io.pc = "written"
    /\ LET header == BoxHeader_read(io.wr.buf, 0) IN
       io' = [pc |-> "read", box |-> io.box, wr |-> io.wr, header |-> header,
              rd |-> Hvc1Box_read_box(io.wr.buf, HEADER_SIZE, header.size)]
    /\ UNCHANGED <<writer_vars, copy>>

Hvc1Next == hvc1_write_box \/ hvc1_read_box

SpecHvc1 == Hvc1Init /\ [][Hvc1Next]_vars

\* ---------------------------------------------------------- mp4box/stsd.rs
MaxEntries == 2

FourCC_stsd == <<115, 116, 115, 100>>

FourCC_stts == <<115, 116, 116, 115>>

FourCC_avc1 == <<97, 118, 99, 49>>

FourCC_hev1 == <<104, 101, 118, 49>>

FourCC_vp09 == <<118, 112, 48, 57>>

FourCC_mp4a == <<109, 112, 52, 97>>

FourCC_tx3g == <<116, 120, 51, 103>>

\* a four-cc that is no sample entry of the registry
FourCC_unknown == <<97, 98, 99, 100>>

\* the sample entries whose read_box is in another file: the bytes of the
\* entry are kept as they are
Entry_read_box(name, buf, p, size) ==
    IF ~Avail(buf, p, size - HEADER_SIZE) THEN [result |-> "IoError"]
    ELSE [result |-> "Ok",
          box |-> [name |-> name, payload |-> SubSeq(buf, p + 1, p + size - HEADER_SIZE)]]

\* `if s > size` of StsdBox::read_box
StsdChildTooLarge(s, size) == s > size

\* the `match name` of StsdBox::read_box: the field it sets and the child read
StsdChild_read_box(name, buf, p, s) ==
    IF name = FourCC_avc1 THEN [field |-> "avc1", rd |-> Entry_read_box(name, buf, p, s)]
    ELSE IF name = FourCC_hev1 THEN [field |-> "hev1", rd |-> Entry_read_box(name, buf, p, s)]
    ELSE IF name = FourCC_hvc1 THEN [field |-> "hvc1", rd |-> Hvc1Box_read_box(buf, p, s)]
    ELSE IF name = FourCC_vp09 THEN [field |-> "vp09", rd |-> Entry_read_box(name, buf, p, s)]
    ELSE IF name = FourCC_mp4a THEN [field |-> "mp4a", rd |-> Entry_read_box(name, buf, p, s)]
    ELSE IF name = FourCC_Opus THEN [field |-> "opus", rd |-> OpusBox_read_box(buf, p, s)]
    ELSE IF name = FourCC_tx3g THEN [field |-> "tx3g", rd |-> Entry_read_box(name, buf, p, s)]
    ELSE [field |-> "none", rd |-> [result |-> "Ok", box |-> None]]

StsdFields == {"avc1", "hev1", "hvc1", "vp09", "mp4a", "opus", "tx3g"}

\* StsdBox::read_box with the reader at offset p, just after the box header
StsdBox_read_box(buf, p, size) ==
    LET start == p - HEADER_SIZE IN
    IF ~Avail(buf, p, HEADER_EXT_SIZE + 4) THEN [result |-> "IoError"]
    ELSE LET header == BoxHeader_read(buf, p + HEADER_EXT_SIZE + 4) IN
         IF ~header.ok THEN [result |-> "IoError"]
         ELSE IF StsdChildTooLarge(header.size, size) THEN [result |-> "InvalidData"]
         ELSE LET child == StsdChild_read_box(header.name, buf,
                                              p + HEADER_EXT_SIZE + 4 + HEADER_SIZE,
                                              header.size)
              IN IF child.rd.result # "Ok" THEN [result |-> child.rd.result]
                 ELSE [result |-> "Ok",
                       pos |-> start + size,
                       box |-> [f \in StsdFields |->
                                   IF f = child.field THEN Some(child.rd.box) ELSE None]
                               @@ [version |-> RdU8(buf, p),
                                   flags |-> (RdU8(buf, p + 1) * 256 + RdU8(buf, p + 2)) * 256
                                               + RdU8(buf, p + 3)]]

\* --- the stsd boxes given to the reader
EntryKinds == {"opus_dops", "opus", "hvc1", "tx3g", "unknown"}

OpusWithDops ==
    [data_reference_index |-> 1, channel_count |-> 2, sample_size |-> 16,
     sample_rate |-> <<48000, 0>>,
     dops_box |-> Some([version |-> 0, output_channel_count |-> 2, pre_skip |-> 312,
                        input_sample_rate |-> U64(48000), output_gain |-> 0,
                        channel_mapping_family |-> 0, channel_mapping_table |-> None])]

OpusWithoutDops == [OpusWithDops EXCEPT !.dops_box = None]

Hvc1Entry ==
    [data_reference_index |-> 1, width |-> 320, height |-> 240,
     horizresolution |-> <<72, 0>>, vertresolution |-> <<72, 0>>,
     frame_count |-> 1, depth |-> 24,
     hvcc |-> [configuration_version |-> 1, general_profile_space |-> 0,
               general_tier_flag |-> FALSE, general_profile_idc |-> 1,
               general_profile_compatibility_flags |-> U64(0),
               general_constraint_indicator_flag |-> <<0, 0, 0>>,
               general_level_idc |-> 93, min_spatial_segmentation_idc |-> 0,
               parallelism_type |-> 0, chroma_format_idc |-> 1,
               bit_depth_luma_minus8 |-> 0, bit_depth_chroma_minus8 |-> 0,
               avg_frame_rate |-> 0, constant_frame_rate |-> 0,
               num_temporal_layers |-> 1, temporal_id_nested |-> FALSE,
               length_size_minus_one |-> 3,
               arrays |-> <<HvcCArrayAt(1)>>]]

\* an hvc1 entry as read_box expects it: the hvcC fields behind an hvcC header
Hvc1EntryBytes(b) ==
    LET w == Hvc1Box_write_box(b).buf IN
    SubSeq(w, 1, HEADER_SIZE + 78)
      \o BoxHeader_write(FourCC_hvcC, HvcCBox_box_size(b.hvcc))
      \o SubSeq(w, HEADER_SIZE + 78 + 1, Len(w))

EntryBytes(kind) ==
    CASE kind = "opus_dops" -> OpusBox_write_box(OpusWithDops).buf
      [] kind = "opus" -> OpusBox_write_box(OpusWithoutDops).buf
      [] kind = "hvc1" -> Hvc1EntryBytes(Hvc1Entry)
      [] kind = "tx3g" -> BoxHeader_write(FourCC_tx3g, HEADER_SIZE + 4) \o Zeros(4)
      [] kind = "unknown" -> BoxHeader_write(FourCC_unknown, HEADER_SIZE + 4) \o Zeros(4)

\* offset of the header of the entry's inner box from the start of the entry
InnerOffset(kind) == IF kind = "hvc1" THEN HEADER_SIZE + 78 ELSE HEADER_SIZE + 28

RECURSIVE EntriesBytes(_)
EntriesBytes(kinds) ==
    IF kinds = <<>> THEN <<>> ELSE EntryBytes(Head(kinds)) \o EntriesBytes(Tail(kinds))

\* buf with the u32 at offset off replaced by v
Patch32(buf, off, v) ==
    SubSeq(buf, 1, off) \o BE32(U64(v)) \o SubSeq(buf, off + 5, Len(buf))

StsdInputs ==
    {x \in [entries : UNION {[1..n -> EntryKinds] : n \in 1..MaxEntries},
            entry_count : 1..MaxEntries,
            child_extra : 0..1,
            inner_extra : 0..1,
            trailer : BOOLEAN] :
        /\ x.entry_count \in {1, Len(x.entries)}
        /\ x.inner_extra = 1 => x.entries[1] \in {"opus_dops", "hvc1"}}

\* offset of the first entry in an stsd box
StsdChildOffset == HEADER_SIZE + HEADER_EXT_SIZE + 4

\* the bytes of the stsd box x describes, followed by the next box of the
\* parent (an empty stts) when x.trailer; child_extra and inner_extra make the
\* declared size of the first entry, of its inner box, exceed the bytes that
\* remain in the parent by that much
StsdBytes(x) ==
    LET body == EntriesBytes(x.entries)
        size == StsdChildOffset + Len(body)
        plain == BoxHeader_write(FourCC_stsd, size) \o write_box_header_ext(0, 0)
                   \o BE32(U64(x.entry_count)) \o body
        child_size == IF x.child_extra > 0
                      THEN size - StsdChildOffset + x.child_extra
                      ELSE Len(EntryBytes(x.entries[1]))
        first == IF x.child_extra > 0 THEN Patch32(plain, StsdChildOffset, child_size)
                 ELSE plain
        inner == StsdChildOffset + InnerOffset(x.entries[1])
        second == IF x.inner_extra > 0
                  THEN Patch32(first, inner,
                               child_size - InnerOffset(x.entries[1]) + x.inner_extra)
                  ELSE first
    IN second \o (IF x.trailer
                  THEN BoxHeader_write(FourCC_stts, HEADER_SIZE + HEADER_EXT_SIZE + 4)
                         \o Zeros(HEADER_EXT_SIZE + 4)
                  ELSE <<>>)

StsdInit ==
    /\ CodecInit
    /\ \E x \in StsdInputs : io = [pc |-> "buf", input |-> x, buf |-> StsdBytes(x)]

\* BoxHeader::read(&mut reader), then StsdBox::read_box(&mut reader, header.size)
stsd_read_box ==
    /\ io.pc = "buf"
    /\ LET header == BoxHeader_read(io.buf, 0) IN
       io' = [pc |-> "read", input |-> io.input, buf |-> io.buf, header |-> header,
              rd |-> StsdBox_read_box(io.buf, HEADER_SIZE, header.size)]
    /\ UNCHANGED <<writer_vars, copy>>

StsdNext == stsd_read_box

SpecStsd == StsdInit /\ [][StsdNext]_vars

\* ------------------------------------------------ types.rs: SampleFreqIndex
MaxDelta == 2

SampleFreqIndexes ==
    {"Freq96000", "Freq88200", "Freq64000", "Freq48000", "Freq44100", "Freq32000",
     "Freq24000", "Freq22050", "Freq16000", "Freq12000", "Freq11025", "Freq8000",
     "Freq7350"}

\* SampleFreqIndex::freq
freq(v) ==
    CASE v = "Freq96000" -> 96000
      [] v = "Freq88200" -> 88200
      [] v = "Freq64000" -> 64000
      [] v = "Freq48000" -> 48000
      [] v = "Freq44100" -> 44100
      [] v = "Freq32000" -> 32000
      [] v = "Freq24000" -> 24000
      [] v = "Freq22050" -> 22050
      [] v = "Freq16000" -> 16000
      [] v = "Freq12000" -> 12000
      [] v = "Freq11025" -> 11025
      [] v = "Freq8000" -> 8000
      [] v = "Freq7350" -> 7350

Ok(v) == [result |-> "Ok", value |-> v]

InvalidData == [result |-> "InvalidData"]

\* mutant: 96000 is accepted for Freq96000
SampleFreqIndex_try_from_u32_m(value) ==
    IF \E v \in SampleFreqIndexes : freq(v) = value
    THEN Ok(CHOOSE v \in SampleFreqIndexes : freq(v) = value)
    ELSE InvalidData

\* impl TryFrom<u32> for SampleFreqIndex
SampleFreqIndex_try_from_u32(value) ==
    CASE value = 9600 -> Ok("Freq96000")
      [] value = 88200 -> Ok("Freq88200")
      [] value = 64000 -> Ok("Freq64000")
      [] value = 48000 -> Ok("Freq48000")
      [] value = 44100 -> Ok("Freq44100")
      [] value = 32000 -> Ok("Freq32000")
      [] value = 24000 -> Ok("Freq24000")
      [] value = 22050 -> Ok("Freq22050")
      [] value = 16000 -> Ok("Freq16000")
      [] value = 12000 -> Ok("Freq12000")
      [] value = 11025 -> Ok("Freq11025")
      [] value = 8000 -> Ok("Freq8000")
      [] value = 7350 -> Ok("Freq7350")
      [] OTHER -> InvalidData

\* the u32 values tried: every frequency of the two tables and its neighbours
FreqInputs ==
    {0} \cup {f + d : f \in {freq(v) : v \in SampleFreqIndexes} \cup {9600},
                      d \in (0 - MaxDelta)..MaxDelta}

FreqInit ==
    /\ CodecInit
    /\ \/ \E value \in FreqInputs : io = [pc |-> "value", from |-> None, value |-> value]
       \/ \E v \in SampleFreqIndexes : io = [pc |-> "variant", from |-> Some(v)]

\* v.freq()
sample_freq_index_freq ==
    /\ io.pc = "variant"
    /\ io' = [pc |-> "value", from |-> io.from, value |-> freq(io.from[1])]
    /\ UNCHANGED <<writer_vars, copy>>

\* SampleFreqIndex::try_from(value)
sample_freq_index_try_from ==
    /\ io.pc = "value"
    /\ io' = [pc |-> "done", from |-> io.from, value |-> io.value,
              rd |-> SampleFreqIndex_try_from_u32(io.value)]
    /\ UNCHANGED <<writer_vars, copy>>

FreqNext == sample_freq_index_freq \/ sample_freq_index_try_from

SpecFreq == FreqInit /\ [][FreqNext]_vars

\* ------------------------------------------- mp4box/stsd.rs: get_size, write
\* a sample entry whose codec is in another file: its four-cc and payload
OtherEntry(name) == [name |-> name, payload |-> Zeros(4)]

Entry_box_size(e) == HEADER_SIZE + Len(e.payload)

Entry_write_box(e) == BoxHeader_write(e.name, Entry_box_size(e)) \o e.payload

\* StsdBox values: each of the seven fields absent or present
StsdBoxes ==
    [version : {0}, flags : {0},
     avc1 : {None, Some(OtherEntry(FourCC_avc1))},
     hev1 : {None, Some(OtherEntry(FourCC_hev1))},
     hvc1 : {None, Some(Hvc1Entry)},
     vp09 : {None, Some(OtherEntry(FourCC_vp09))},
     mp4a : {None, Some(OtherEntry(FourCC_mp4a))},
     opus : {None, Some(OpusWithDops), Some(OpusWithoutDops)},
     tx3g : {None, Some(OtherEntry(FourCC_tx3g))}]

\* the if / else-if chain of StsdBox::get_size
StsdGetSizeOrder == <<"avc1", "hev1", "hvc1", "vp09", "mp4a", "opus", "tx3g">>

\* the if / else-if chain of StsdBox::write_box
StsdWriteBoxOrder == <<"avc1", "hev1", "hvc1", "vp09", "mp4a", "tx3g", "opus">>

\* the field the first `if let Some(..)` of a chain matches, "none" if none does
FirstSome(b, order) ==
    IF \E i \in DOMAIN order : b[order[i]] # None
    THEN order[CHOOSE i \in DOMAIN order :
                  /\ b[order[i]] # None
                  /\ \A j \in 1..(i - 1) : b[order[j]] = None]
    ELSE "none"

\* box_size() of the entry in field f
StsdEntry_box_size(f, e) ==
    CASE f = "hvc1" -> Hvc1Box_get_size(e)
      [] f = "opus" -> OpusBox_get_size(e)
      [] OTHER -> Entry_box_size(e)

\* write_box of the entry in field f
StsdEntry_write_box(f, e) ==
    CASE f = "hvc1" -> Hvc1Box_write_box(e).buf
      [] f = "opus" -> OpusBox_write_box(e).buf
      [] OTHER -> Entry_write_box(e)

StsdBox_get_size(b) ==
    LET f == FirstSome(b, StsdGetSizeOrder) IN
    HEADER_SIZE + HEADER_EXT_SIZE + 4
      + (IF f = "none" THEN 0 ELSE StsdEntry_box_size(f, b[f][1]))

\* StsdBox::write_box; written is the field whose entry it wrote
StsdBox_write_box(b) ==
    LET size == StsdBox_get_size(b)
        f == FirstSome(b, StsdWriteBoxOrder)
    IN [result |-> "Ok", size |-> size, written |-> f,
        buf |-> BoxHeader_write(FourCC_stsd, size)
                  \o write_box_header_ext(b.version, b.flags)
                  \o BE32(U64(1))
                  \o (IF f = "none" THEN <<>> ELSE StsdEntry_write_box(f, b[f][1]))]

StsdWriteInit ==
    /\ CodecInit
    /\ \E b \in StsdBoxes : io = [pc |-> "box", box |-> b]

\* stsd.write_box(&mut buf)
stsd_write_box ==
    /\ io.pc = "box"
    /\ io' = [pc |-> "written", box |-> io.box, wr |-> StsdBox_write_box(io.box)]
    /\ UNCHANGED <<writer_vars, copy>>

StsdWriteNext == stsd_write_box

SpecStsdWrite == StsdWriteInit /\ [][StsdWriteNext]_vars

\* --------------------------------------------- mp4box/opus.rs: DopsBox alone
DopsInit ==
    /\ CodecInit
    /\ \E d \in DopsBoxes : io = [pc |-> "box", box |-> d]

\* dops.write_box(&mut buf)
dops_write_box ==
    /\ io.pc = "box"
    /\ io' = [pc |-> "written", box |-> io.box, wr |-> DopsBox_write_box(io.box)]
    /\ UNCHANGED <<writer_vars, copy>>

DopsNext == dops_write_box

SpecDops == DopsInit /\ [][DopsNext]_vars

\* ------------------------------------------------- mp4box/opus.rs: ::new
\* `x as u16`
AsU16(n) == n % Radix

\* FixedPointU16::new(val: u16): the raw 16.16 value val * 0x10000
FixedPointU16_new(val) == <<val, 0>>

\* FixedPointU16::value: to_integer() as u16
FixedPointU16_value(raw) == AsU16(raw[1])

\* ChannelConfig as its discriminant, Mono = 1 .. SevenOne = 7
ChannelConfigs == 1..7

OpusConfigs ==
    [bitrate : {0},
     freq_index : SampleFreqIndexes,
     chan_conf : ChannelConfigs,
     pre_skip : {0, 312}]

DopsBox_new(config) ==
    [version |-> 0,
     output_channel_count |-> config.chan_conf % 256,
     pre_skip |-> config.pre_skip,
     input_sample_rate |-> U64(freq(config.freq_index)),
     output_gain |-> 0,
     channel_mapping_family |-> 0,
     channel_mapping_table |-> None]

OpusBox_new(config) ==
    [data_reference_index |-> 1,
     channel_count |-> AsU16(config.chan_conf),
     sample_size |-> 16,
     sample_rate |-> FixedPointU16_new(AsU16(freq(config.freq_index))),
     dops_box |-> Some(DopsBox_new(config))]

OpusNewInit ==
    /\ CodecInit
    /\ \E config \in OpusConfigs : io = [pc |-> "config", config |-> config]

\* OpusBox::new(&config)
opus_new ==
    /\ io.pc = "config"
    /\ io' = [pc |-> "done", config |-> io.config, box |-> OpusBox_new(io.config)]
    /\ UNCHANGED <<writer_vars, copy>>

OpusNewNext == opus_new

SpecOpusNew == OpusNewInit /\ [][OpusNewNext]_vars

\* ----------------------------------------------------- types.rs: AvcProfile
\* value.0: every u8
AvcProfileBytes == 0..255

\* value.1: constraint bytes with bit 0x40 and its neighbours set and clear
AvcConstraintBytes == {0, 32, 64, 96, 128, 192, 224, 255}

\* impl TryFrom<(u8, u8)> for AvcProfile
AvcProfile_try_from(profile, constraints) ==
    LET constraint_set1_flag == BitAnd(constraints, 64) \div 2^7 IN
    CASE profile = 66 /\ constraint_set1_flag = 1 -> Ok("AvcConstrainedBaseline")
      [] profile = 66 /\ constraint_set1_flag = 0 -> Ok("AvcBaseline")
      [] profile = 77 -> Ok("AvcMain")
      [] profile = 88 -> Ok("AvcExtended")
      [] profile = 100 -> Ok("AvcHigh")
      [] OTHER -> InvalidData

AvcInit ==
    /\ CodecInit
    /\ \E profile \in AvcProfileBytes, constraints \in AvcConstraintBytes :
          io = [pc |-> "value", value |-> <<profile, constraints>>]

\* AvcProfile::try_from(value)
avc_profile_try_from ==
    /\ io.pc = "value"
    /\ io' = [pc |-> "done", value |-> io.value,
              rd |-> AvcProfile_try_from(io.value[1], io.value[2])]
    /\ UNCHANGED <<writer_vars, copy>>

AvcNext == avc_profile_try_from

SpecAvc == AvcInit /\ [][AvcNext]_vars

\* ------------------------------------------------------------------ claims
\* a call was made in this step
Called(op) == ncalls' # ncalls /\ ret'.op = op

\* the last region of the stream
LastRegion == writer.body[Len(writer.body)]

\* write_end has just returned: the stream ends with the moov it wrote
JustEnded == ret.op = "write_end"

LastMoov == LastRegion.moov[1]

NumMoov == Cardinality({i \in DOMAIN writer.body : writer.body[i].kind = "moov"})

TwoPow32 == Add(U32_MAX, U64(1))

\* the size the mdat header declares: the largesize when the size field is 1
LargeForm(w) == w.mdat_size_field = U64(1)

DeclaredMdatSize(w) == IF LargeForm(w) THEN w.wide_slot.value ELSE w.mdat_size_field

\* largest of a set of 64-bit values, 0 for the empty set
MaxOf(S) == IF S = {} THEN Zero ELSE CHOOSE m \in S : \A x \in S : Ge(m, x)

\* C1: add_track with config.track_id = Some(id), id already registered,
\* returns Err(InvalidData("track_id already exists")), never Ok.
C1_DuplicateRejected ==
    [][(Called("add_track") /\ ret'.arg # None /\ ret'.arg[1] \in DOMAIN tracks)
         => ret'.result = "InvalidData"]_vars

C1_Witness ==
    /\ ret.op = "add_track"
    /\ ret.arg # None
    /\ ret.result = "InvalidData"

\* C2: add_track assigns config.track_id.unwrap_or(max_existing + 1): with
\* None the id is the largest registered id plus one (1 with no track), with
\* Some(id) it is id.
C2_AssignedId ==
    [][Called("add_track")
         => ret'.value = Some(IF ret'.arg = None
                              THEN (IF DOMAIN tracks = {} THEN 1
                                    ELSE (CHOOSE m \in DOMAIN tracks :
                                             \A k \in DOMAIN tracks : m >= k) + 1)
                              ELSE ret'.arg[1])]_vars

\* C3: write_sample returns Err(TrakNotFound(track_id)) whenever track_id is
\* 0 or not registered, and then the output, the movie duration and every
\* track are unchanged.
C3_UnknownTrackRejected ==
    [][(Called("write_sample")
          /\ (ret'.arg[1] = 0 \/ ret'.arg[1] \notin DOMAIN tracks))
         => /\ ret'.result = "TrakNotFound"
            /\ ret'.value = ret'.arg
            /\ UNCHANGED <<writer, duration, tracks>>]_vars

C3_Witness ==
    /\ ret.op = "write_sample"
    /\ ret.arg = Some(0)
    /\ 0 \in DOMAIN tracks
    /\ ret.result = "TrakNotFound"

\* C4: after a successful write_sample the movie duration is the larger of
\* its value before the call and the track duration the track returned; no
\* call ever decreases the movie duration.
C4_DurationIsMax ==
    [][/\ (Called("write_sample") /\ ret'.result = "Ok")
            => duration' = Max(duration, ret'.value[1])
       /\ Ge(duration', duration)]_vars

C4_Witness ==
    /\ ret.op = "write_sample"
    /\ ret.result = "Ok"
    /\ Gt(duration, ret.value[1])

\* C5: the mvhd.duration write_end puts into moov is the maximum over the
\* traks of that moov of the track duration in movie timescale, 0 when no
\* track holds a sample.
C5_MvhdDurationIsMaxOfTraks ==
    JustEnded =>
        LastMoov.mvhd.duration =
            MaxOf({LastMoov.traks[i].tkhd_duration : i \in DOMAIN LastMoov.traks})

\* C6: once write_end has returned Ok, no later call appends sample bytes,
\* changes the mdat size field or emits another moov.
C6_FinalizedIsFinal ==
    [][NumMoov >= 1
         => /\ writer'.body = writer.body
            /\ writer'.mdat_size_field = writer.mdat_size_field
            /\ writer'.wide_slot = writer.wide_slot]_vars

\* C7: after write_start; add_track*; write_sample*; write_end the output
\* is ftyp, mdat, moov and their declared sizes tile it: ftyp ends at
\* mdat_pos, mdat declares mdat_end - mdat_pos, moov starts at mdat_end and
\* ends at the end of the output; every sample lies inside mdat.
C7_BoxesTileOutput ==
    (JustEnded /\ NumMoov = 1) =>
        LET mdat_end == LastRegion.at IN
        /\ writer.ftyp_size = mdat_pos
        /\ LargeForm(writer) => writer.wide_slot.type = "largesize"
        /\ Add(mdat_pos, DeclaredMdatSize(writer)) = mdat_end
        /\ Add(mdat_end, U64(MoovBoxSize(LastMoov))) = writer.pos
        /\ \A i \in DOMAIN writer.body :
              writer.body[i].kind = "sample" =>
                 /\ Ge(writer.body[i].at, Add(mdat_pos, U64(2 * HEADER_SIZE)))
                 /\ Ge(mdat_end, Add(writer.body[i].at, writer.body[i].len))

C7_Witness ==
    /\ JustEnded
    /\ NumMoov = 1
    /\ Len(writer.body) >= 3

\* C8: when the mdat extent exceeds u32::MAX, write_end sets the size field
\* at mdat_pos to 1 and writes the extent into the 8 bytes at mdat_pos + 8;
\* otherwise it writes the extent into the size field and leaves the wide
\* header in place.
C8_LargesizeRewrite ==
    [][Called("write_end")
         => LET extent == Sub(writer.pos, mdat_pos) IN
            IF Gt(extent, U32_MAX)
            THEN /\ writer'.mdat_size_field = U64(1)
                 /\ writer'.wide_slot = [type |-> "largesize", value |-> extent]
            ELSE /\ writer'.mdat_size_field = extent
                 /\ writer'.wide_slot = WideHeader]_vars

C8_Witness ==
    /\ JustEnded
    /\ writer.wide_slot.type = "largesize"
    /\ Gt(writer.wide_slot.value, U32_MAX)

\* the mdat payload at the last write_end: extent minus HEADER_SIZE
MdatPayload == Sub(Sub(LastRegion.at, mdat_pos), U64(HEADER_SIZE))

\* C9 as stated: the largesize form is emitted iff payload > 2^32 - HEADER_SIZE.
C9_Original ==
    JustEnded =>
        (LargeForm(writer) <=> Gt(MdatPayload, Sub(TwoPow32, U64(HEADER_SIZE))))

\* C9 amended: the largesize form is emitted iff payload >= 2^32 - HEADER_SIZE,
\* that is iff the whole box size is >= 2^32.
C9_LargesizeThreshold ==
    JustEnded =>
        (LargeForm(writer) <=> Ge(MdatPayload, Sub(TwoPow32, U64(HEADER_SIZE))))

C9_Witness ==
    /\ JustEnded
    /\ MdatPayload = Sub(TwoPow32, U64(HEADER_SIZE))
    /\ LargeForm(writer)

\* C10: moov carries mvhd.timescale = the configured movie timescale,
\* mvhd.duration = the movie duration, and mvhd.version = 1 iff that
\* duration is >= 2^32, 0 otherwise.
C10_MvhdFields ==
    JustEnded =>
        /\ LastMoov.mvhd.timescale = timescale
        /\ LastMoov.mvhd.duration = duration
        /\ LastMoov.mvhd.version = (IF Ge(duration, TwoPow32) THEN 1 ELSE 0)

C10_Witness ==
    /\ JustEnded
    /\ duration = TwoPow32
    /\ LastMoov.mvhd.version = 1

\* C11: the edit list of a track in moov has segment duration
\* min(floor(duration_us * movie_timescale / 1_000_000), D), D being the
\* mvhd.duration of that moov, whether update_offset came before or after
\* the samples.
C11_EditClampedToFinalDuration ==
    JustEnded =>
        \A i \in DOMAIN LastMoov.traks :
            LET trak == LastMoov.traks[i] IN
            trak.elst # None =>
                trak.elst[1].segment_duration =
                    Min(edits[trak.track_id], LastMoov.mvhd.duration)

\* C12: the copy delivers every source track's samples, in order, to the
\* destination track configured from that source track; source and
\* destination agree on track count and per-track sample count.
C12_CopyDelivers ==
    copy.pc \in {"done", "failed"} =>
        /\ copy.pc = "done"
        /\ Cardinality(DOMAIN tracks) = Cardinality(DOMAIN copy.src)
        /\ \A d \in DOMAIN tracks :
              LET from == copy.from[d] IN
              /\ tracks[d].sample_count = copy.src[from]
              /\ copy.delivered[d] = [k \in 1..copy.src[from] |-> <<from, k>>]

\* the fields of a SidxBox fit their wire widths
SidxFits(b) ==
    /\ b.version \in {0, 1}
    /\ b.reference_count = Len(b.segments)
    /\ b.version = 0 =>
          /\ ~Gt(b.earliest_presentation_time, U32_MAX)
          /\ ~Gt(b.first_offset, U32_MAX)
    /\ \A k \in DOMAIN b.segments :
          /\ ~Gt(b.segments[k].reference_size, <<32767, 65535>>)
          /\ b.segments[k].sap_type < 8
          /\ ~Gt(b.segments[k].sap_delta_time, <<4095, 65535>>)

\* C13: a SidxBox whose fields fit their wire widths is read back equal,
\* in every field of every segment, from the bytes write_box produced.
C13_SidxRoundTrip ==
    (io.pc = "read" /\ SidxFits(io.box)) =>
        /\ io.rd.result = "Ok"
        /\ io.rd.box = io.box

\* C14: for version 0 or 1 the number of bytes write_box writes is
\* box_size(), which is also the size in the box header.
C14_SidxSizeMatchesBytes ==
    (io.pc \in {"written", "read"} /\ io.box.version \in {0, 1}) =>
        /\ Len(io.wr.buf) = SidxBox_get_size(io.box)
        /\ BoxHeader_read(io.wr.buf, 0).size = Len(io.wr.buf)

\* C15: Segment::read takes sap_type from bits 28..30 of the third word of
\* the entry, starts_with_sap from bit 31 and sap_delta_time from the low
\* 28 bits.
C15_SapTypeBits ==
    (io.pc = "read" /\ io.rd.result = "Ok") =>
        \A k \in DOMAIN io.rd.box.segments :
            LET q == HEADER_SIZE + HEADER_EXT_SIZE
                       + (IF io.rd.box.version = 0 THEN 16 ELSE 24) + 4
                sap == RdU32(io.wr.buf, q + 12 * (k - 1) + 8)
                seg == io.rd.box.segments[k]
            IN /\ seg.sap_type = (sap[1] \div 4096) % 8
               /\ seg.starts_with_sap = (sap[1] \div 32768 = 1)
               /\ seg.sap_delta_time = <<sap[1] % 4096, sap[2]>>

\* an OpusBox of the shapes C16 names
OpusWellFormed(b) ==
    b.dops_box # None =>
        LET d == b.dops_box[1] IN
        IF d.channel_mapping_family = 0 THEN d.channel_mapping_table = None
        ELSE /\ d.channel_mapping_table # None
             /\ Len(d.channel_mapping_table[1].channel_mapping) = d.output_channel_count

\* C16: for an OpusBox with dops_box absent, or present with family 0 and no
\* table, or family # 0 and a table of output_channel_count entries,
\* write_box writes box_size() bytes and reading them back gives an equal box.
C16_OpusRoundTrip ==
    (io.pc \in {"written", "read"} /\ OpusWellFormed(io.box)) =>
        /\ io.wr.result = "Ok"
        /\ Len(io.wr.buf) = OpusBox_get_size(io.box)
        /\ io.pc = "read" => (io.rd.result = "Ok" /\ io.rd.box = io.box)

\* C17: Hvc1Box::write_box writes box_size() bytes, the header read back has
\* type hvc1 and size box_size(), and Hvc1Box::read_box on the remainder
\* returns a box equal to the one written.
C17_Hvc1RoundTrip ==
    /\ io.pc \in {"written", "read"} =>
          /\ io.wr.result = "Ok"
          /\ Len(io.wr.buf) = Hvc1Box_get_size(io.box)
    /\ io.pc = "read" =>
          /\ io.header.ok /\ io.header.name = FourCC_hvc1
          /\ io.header.size = Hvc1Box_get_size(io.box)
          /\ io.rd.result = "Ok" /\ io.rd.box = io.box

\* the header of the first entry of the stsd box that was read
StsdChildHeader == BoxHeader_read(io.buf, StsdChildOffset)

\* the header StsdBox::read_box's child reads for its own child
StsdInnerHeader ==
    BoxHeader_read(io.buf, StsdChildOffset + InnerOffset(
        IF StsdChildHeader.name = FourCC_hvc1 THEN "hvc1" ELSE "opus"))

\* the parent bytes that remain from the start of the inner box
StsdInnerRemaining ==
    StsdChildHeader.size
      - InnerOffset(IF StsdChildHeader.name = FourCC_hvc1 THEN "hvc1" ELSE "opus")

\* C18: when StsdBox::read_box, Hvc1Box::read_box or OpusBox::read_box reads
\* the header of its child and the declared size exceeds the parent bytes
\* that remain from the child's start, parsing fails with InvalidData.
C18_ChildWithinParent ==
    io.pc = "read" =>
        /\ (StsdChildHeader.ok
              /\ StsdChildHeader.size > io.header.size - StsdChildOffset)
             => io.rd.result = "InvalidData"
        /\ (StsdChildHeader.ok
              /\ ~StsdChildTooLarge(StsdChildHeader.size, io.header.size)
              /\ StsdChildHeader.name \in {FourCC_Opus, FourCC_hvc1}
              /\ StsdInnerHeader.ok
              /\ StsdInnerHeader.size > StsdInnerRemaining)
             => io.rd.result = "InvalidData"

\* the stsd box of the same first entry with no further entry behind it
StsdFirstOnly == [io.input EXCEPT !.entries = <<io.input.entries[1]>>]

StsdReadFirstOnly == StsdBox_read_box(StsdBytes(StsdFirstOnly), HEADER_SIZE,
                                      BoxHeader_read(StsdBytes(StsdFirstOnly), 0).size)

\* C19: for an stsd with entry_count >= 1 whose sizes are as declared,
\* StsdBox::read_box sets at most one of the seven entry fields and ends at
\* start + size, it succeeds with no field set when the first four-cc is
\* unknown, and further entries behind the first do not make it fail or
\* change what it returns for the first.
C19_StsdFirstEntryOnly ==
    (io.pc = "read" /\ io.input.child_extra = 0 /\ io.input.inner_extra = 0) =>
        /\ io.rd.result = "Ok" =>
              /\ Cardinality({f \in StsdFields : io.rd.box[f] # None}) <= 1
              /\ io.rd.pos = io.header.size
        /\ io.input.entries[1] = "unknown" =>
              /\ io.rd.result = "Ok"
              /\ \A f \in StsdFields : io.rd.box[f] = None
        /\ StsdReadFirstOnly.result = "Ok" =>
              /\ io.rd.result = "Ok"
              /\ io.rd.box = StsdReadFirstOnly.box

\* C20: SampleFreqIndex::try_from(u32) gives Freq96000 for 9600 and InvalidData
\* for 96000; for every other variant v, try_from(v.freq()) is Ok(v); every
\* other u32 is rejected with InvalidData.
C20_TryFromU32 ==
    io.pc = "done" =>
        /\ io.value = 9600 => io.rd = Ok("Freq96000")
        /\ io.value = 96000 => io.rd = InvalidData
        /\ (io.from # None /\ io.from[1] # "Freq96000") => io.rd = Ok(io.from[1])
        /\ (io.value # 9600
              /\ io.value \notin {freq(v) : v \in SampleFreqIndexes \ {"Freq96000"}})
             => io.rd = InvalidData

C20_Witness ==
    /\ io.pc = "done"
    /\ io.from = Some("Freq96000")
    /\ io.value = 96000
    /\ io.rd = InvalidData

\* C21: write_end first takes the TrakBox of every registered track, then
\* patches the mdat size to cover what was written since mdat_pos, restores
\* the position to the end of mdat and only then serializes moov; it writes
\* no sample byte.
C21_WriteEndOrder ==
    [][Called("write_end")
         => LET moov == writer'.body[Len(writer'.body)] IN
            /\ Len(writer'.body) = Len(writer.body) + 1
            /\ SubSeq(writer'.body, 1, Len(writer.body)) = writer.body
            /\ moov.kind = "moov"
            /\ {moov.moov[1].traks[i].track_id : i \in DOMAIN moov.moov[1].traks}
                  = DOMAIN tracks
            /\ Len(moov.moov[1].traks) = Cardinality(DOMAIN tracks)
            /\ DeclaredMdatSize(writer') = Sub(writer.pos, mdat_pos)
            /\ moov.at = writer.pos
            /\ writer'.pos = Add(writer.pos, moov.len)]_vars

C21_Witness ==
    /\ JustEnded
    /\ Len(LastMoov.traks) = 2
    /\ \E i \in DOMAIN writer.body : writer.body[i].kind = "sample"

\* C22: AvcProfile::try_from((profile, constraints)) gives
\* AvcConstrainedBaseline for profile 66 with bit 0x40 of constraints set,
\* AvcBaseline for 66 with it clear, Main, Extended, High for 77, 88, 100
\* whatever the flag, and InvalidData for every other profile.
C22_AvcProfile ==
    io.pc = "done" =>
        LET profile == io.value[1]
            set1 == BitAnd(io.value[2], 64) # 0
        IN io.rd = CASE profile = 66 /\ set1 -> Ok("AvcConstrainedBaseline")
                     [] profile = 66 /\ ~set1 -> Ok("AvcBaseline")
                     [] profile = 77 -> Ok("AvcMain")
                     [] profile = 88 -> Ok("AvcExtended")
                     [] profile = 100 -> Ok("AvcHigh")
                     [] OTHER -> InvalidData

\* C23: an add_track that returns Err(InvalidData("track_id already exists"))
\* leaves the registered ids and every registered track writer as they were.
C23_RejectedAddTrackNoEffect ==
    [][(Called("add_track") /\ ret'.result = "InvalidData")
         => tracks' = tracks]_vars

\* C24: an id add_track returned in Ok(id) is accepted by write_sample: here
\* for the write_sample that directly follows the add_track.
C24_ReturnedIdAccepted ==
    [][(ret.op = "add_track" /\ ret.result = "Ok"
          /\ Called("write_sample") /\ ret'.arg = ret.value)
         => ret'.result # "TrakNotFound"]_vars

\* C25: moov holds the traks in the order in which the tracks were added:
\* here the track of an add_track that returned Ok right before write_end
\* is the last trak.
C25_TrakOrderIsAddOrder ==
    [][(ret.op = "add_track" /\ ret.result = "Ok" /\ Called("write_end"))
         => LET traks == writer'.body[Len(writer'.body)].moov[1].traks IN
            traks[Len(traks)].track_id = ret.value[1]]_vars

\* C26: the mdat size patch of write_end changes the size field at mdat_pos
\* and, in the largesize case only, the 8 bytes at mdat_pos + 8; the bytes
\* written before keep value and offset, sample data starts at
\* mdat_pos + 16, and the position after the patch is mdat_end.
C26_PatchTouchesHeaderOnly ==
    [][Called("write_end")
         => /\ writer'.ftyp_size = writer.ftyp_size
            /\ ~Gt(Sub(writer.pos, mdat_pos), U32_MAX)
                 => writer'.wide_slot = writer.wide_slot
            /\ \A i \in DOMAIN writer.body :
                  /\ writer'.body[i] = writer.body[i]
                  /\ Ge(writer.body[i].at, Add(mdat_pos, U64(2 * HEADER_SIZE)))
            /\ writer.body # <<>>
                 => writer.body[1].at = Add(mdat_pos, U64(2 * HEADER_SIZE))
            /\ writer'.body[Len(writer'.body)].at = writer.pos]_vars

C26_Witness ==
    /\ JustEnded
    /\ LargeForm(writer)
    /\ writer.body[1].kind = "sample"
    /\ writer.body[1].at = Add(mdat_pos, U64(2 * HEADER_SIZE))
    /\ Len(writer.body) >= 3

\* C27: for every StsdBox value the entry StsdBox::get_size counts is the
\* entry StsdBox::write_box writes, and the bytes written are box_size()
\* bytes, the size in the stsd header.
C27_StsdSizeMatchesWrite ==
    io.pc = "written" =>
        /\ io.wr.written = FirstSome(io.box, StsdGetSizeOrder)
        /\ Len(io.wr.buf) = StsdBox_get_size(io.box)
        /\ BoxHeader_read(io.wr.buf, 0).size = StsdBox_get_size(io.box)

\* C28: the entry_count StsdBox::write_box writes is the number of sample
\* entries it writes after it.
C28_StsdEntryCount ==
    io.pc = "written" =>
        RdU32(io.wr.buf, HEADER_SIZE + HEADER_EXT_SIZE)
            = U64(IF io.wr.written = "none" THEN 0 ELSE 1)

\* C29: DopsBox::write_box completes without aborting and writes box_size()
\* bytes for every DopsBox value.
C29_DopsWriteTotal ==
    io.pc = "written" =>
        /\ io.wr.result = "Ok"
        /\ Len(io.wr.buf) = DopsBox_box_size(io.box)

\* C30: OpusBox::new(config) has sample_rate.value() equal to
\* config.freq_index.freq() and a dOps input_sample_rate equal to it, for
\* every SampleFreqIndex variant.
C30_OpusNewSampleRate ==
    io.pc = "done" =>
        /\ FixedPointU16_value(io.box.sample_rate) = freq(io.config.freq_index)
        /\ io.box.dops_box[1].input_sample_rate = U64(freq(io.config.freq_index))

====
